---- MODULE Spec2Model ----
(***************************************************************************)
(* The knowledge graph of src/utils/knowledge_graph.py: the KnowledgeGraph *)
(* class over a networkx.Graph, its ingestion operations, its queries and  *)
(* its JSON export and import.                                             *)
(*                                                                         *)
(* A Python str is a sequence of tokens.  A name or a description is a     *)
(* sequence of one-character tokens, so that lower(), replace() and        *)
(* slicing act on it as they do in Python; a string the code only compares *)
(* or copies (a type, a relationship label, a url) is a one-token          *)
(* sequence.  A dict is a function from its keys (TLA+ strings) to values. *)
(***************************************************************************)
EXTENDS Integers, Sequences, FiniteSets, TLC

VARIABLES knowledge_graph, last, nops

vars == <<knowledge_graph, last, nops>>

(***************************************************************************)
(* Bounds of the model.                                                    *)
(***************************************************************************)
\* Number of write operations in one run.
MaxOps == 3

(***************************************************************************)
(* Program constants.                                                      *)
(***************************************************************************)
\* add_gap names a nameless gap by the first 30 characters of its description.
GapNameLen == 30

(***************************************************************************)
(* Python values.                                                          *)
(***************************************************************************)
EmptyDict == <<>>

EmptyStr == <<>>

True == <<"True">>

False == <<"False">>

Get(d, k, default) == IF k \in DOMAIN d THEN d[k] ELSE default

\* dict.update(e): the keys of e override those of d.
Update(d, e) == e @@ d

Range(s) == {s[i] : i \in DOMAIN s}

\* str.lower() on one character.
LowerChar(c) ==
    CASE c = "A" -> "a"
      [] c = "B" -> "b"
      [] c = "C" -> "c"
      [] c = "D" -> "d"
      [] c = "M" -> "m"
      [] c = "P" -> "p"
      [] c = "Q" -> "q"
      [] OTHER -> c

StrLower(s) == [i \in 1..Len(s) |-> LowerChar(s[i])]

StrReplace(s, old, new) == [i \in 1..Len(s) |-> IF s[i] = old THEN new ELSE s[i]]

\* A faulty variant of Slug: the case is kept.
Slug_keeping_case(s) == StrReplace(s, " ", "_")

\* name.lower().replace(' ', '_')
Slug(s) == StrReplace(StrLower(s), " ", "_")

\* s[:n]
Prefix(s, n) == SubSeq(s, 1, IF Len(s) < n THEN Len(s) ELSE n)

StartsWith(s, tok) == Len(s) >= 1 /\ s[1] = tok

(***************************************************************************)
(* networkx.Graph: the node dict and the adjacency dicts, both in          *)
(* insertion order.  nodes is the order of the node dict, attrs its        *)
(* values; an edge is the set of its endpoints, edges lists the edges in   *)
(* the order they were first added, eattrs is the edge data dict.          *)
(***************************************************************************)
Graph == [nodes |-> <<>>, attrs |-> EmptyDict, edges |-> <<>>, eattrs |-> EmptyDict]

HasNode(g, n) == n \in DOMAIN g.attrs

HasEdge(g, u, v) == {u, v} \in DOMAIN g.eattrs

\* Graph.add_node(n, **attr): creates the node or updates its attributes.
add_node(g, n, attr) ==
    IF HasNode(g, n)
    THEN [g EXCEPT !.attrs[n] = Update(@, attr)]
    ELSE [g EXCEPT !.nodes = Append(@, n), !.attrs = (n :> attr) @@ @]

\* The node-creating part of Graph.add_edge: an endpoint that is no node
\* becomes one, with no attributes.
ensure_node(g, n) == IF HasNode(g, n) THEN g ELSE add_node(g, n, EmptyDict)

\* A faulty variant of add_edge: the values an edge already has are kept.
add_edge_keeping_old(g, u, v, attr) ==
    LET g2 == ensure_node(ensure_node(g, u), v)
        e  == {u, v}
    IN  IF e \in DOMAIN g2.eattrs
        THEN [g2 EXCEPT !.eattrs[e] = Update(attr, @)]
        ELSE [g2 EXCEPT !.edges = Append(@, e), !.eattrs = (e :> attr) @@ @]

\* Graph.add_edge(u, v, **attr): one data dict per unordered pair, updated
\* when the pair is already connected.
add_edge(g, u, v, attr) ==
    LET g2 == ensure_node(ensure_node(g, u), v)
        e  == {u, v}
    IN  IF e \in DOMAIN g2.eattrs
        THEN [g2 EXCEPT !.eattrs[e] = Update(@, attr)]
        ELSE [g2 EXCEPT !.edges = Append(@, e), !.eattrs = (e :> attr) @@ @]

\* Graph.neighbors(n)
neighbors(g, n) == {m \in DOMAIN g.attrs : HasEdge(g, n, m)}

(***************************************************************************)
(* KnowledgeGraph                                                          *)
(***************************************************************************)
KnowledgeGraph ==
    [graph |-> Graph,
     product_nodes |-> {},
     feature_nodes |-> {},
     category_nodes |-> {},
     company_nodes |-> {},
     user_need_nodes |-> {}]

product_id_of(product_data) == <<"product:">> \o Slug(Get(product_data, "name", EmptyStr))

category_id_of(name) == <<"category:">> \o Slug(name)

feature_id_of(name) == <<"feature:">> \o Slug(name)

\* A faulty variant of add_product_node: an existing product node is replaced,
\* its edges are dropped.
add_product_node_replacing(self, product_data) ==
    LET product_id == product_id_of(product_data)
        g == self.graph
        kept == SelectSeq(g.edges, LAMBDA e : product_id \notin e)
        g1 == [g EXCEPT !.edges = kept, !.eattrs = [e \in Range(kept) |-> g.eattrs[e]]]
        attr == [type |-> <<"product">>,
                 name |-> Get(product_data, "name", <<"Unknown Product">>),
                 description |-> Get(product_data, "description", EmptyStr),
                 url |-> Get(product_data, "url", EmptyStr),
                 pricing |-> Get(product_data, "pricing_model", EmptyStr),
                 audience |-> Get(product_data, "target_audience", EmptyStr)]
    IN  [self EXCEPT !.graph = add_node(g1, product_id, attr),
                     !.product_nodes = @ \cup {product_id}]

\* add_product, lines 55-65: the product node and its index entry.
add_product_node(self, product_data) ==
    LET product_id == product_id_of(product_data)
        attr == [type |-> <<"product">>,
                 name |-> Get(product_data, "name", <<"Unknown Product">>),
                 description |-> Get(product_data, "description", EmptyStr),
                 url |-> Get(product_data, "url", EmptyStr),
                 pricing |-> Get(product_data, "pricing_model", EmptyStr),
                 audience |-> Get(product_data, "target_audience", EmptyStr)]
    IN  [self EXCEPT !.graph = add_node(@, product_id, attr),
                     !.product_nodes = @ \cup {product_id}]

\* add_product, lines 67-76: the category node and the belongs_to edge.
add_product_category(self, product_id, product_category) ==
    IF product_category # EmptyStr
    THEN LET category_id == category_id_of(product_category)
             g1 == add_node(self.graph, category_id,
                            [type |-> <<"category">>, name |-> product_category])
         IN  [self EXCEPT !.graph = add_edge(g1, product_id, category_id,
                                             [relationship |-> <<"belongs_to">>]),
                          !.category_nodes = @ \cup {category_id}]
    ELSE self

\* add_product, lines 80-87: one round of the feature loop.
add_product_feature(self, product_id, feature) ==
    LET feature_id == feature_id_of(feature)
        g1 == add_node(self.graph, feature_id, [type |-> <<"feature">>, name |-> feature])
    IN  [self EXCEPT !.graph = add_edge(g1, product_id, feature_id,
                                        [relationship |-> <<"has_feature">>]),
                     !.feature_nodes = @ \cup {feature_id}]

RECURSIVE add_product_features(_, _, _)
add_product_features(self, product_id, product_features) ==
    IF product_features = <<>>
    THEN self
    ELSE add_product_features(add_product_feature(self, product_id, Head(product_features)),
                              product_id, Tail(product_features))

\* add_product: the store after the call and the value returned.
add_product(self, product_data) ==
    LET product_id == product_id_of(product_data)
        s1 == add_product_node(self, product_data)
        s2 == add_product_category(s1, product_id, Get(product_data, "category", EmptyStr))
        s3 == add_product_features(s2, product_id, Get(product_data, "feature_list", <<>>))
    IN  [self |-> s3, ret |-> product_id]

gap_name_of(gap_data) ==
    Get(gap_data, "name", Prefix(Get(gap_data, "description", EmptyStr), GapNameLen))

gap_id_of(gap_data) ==
    <<"gap:">> \o Get(gap_data, "type", <<"feature">>) \o <<":">> \o Slug(gap_name_of(gap_data))

\* add_gap, lines 111-118: the gap node; gaps have no index.
add_gap_node(self, gap_data) ==
    [self EXCEPT !.graph = add_node(@, gap_id_of(gap_data),
        [type |-> <<"gap">>,
         gap_type |-> Get(gap_data, "type", <<"feature">>),
         name |-> gap_name_of(gap_data),
         description |-> Get(gap_data, "description", EmptyStr)])]

\* The loops of add_gap (120-124), add_user_need (172-176) and add_company
\* (214-218): an edge from node_id to each listed ID that is in the index,
\* the others are passed over.
RECURSIVE link_indexed(_, _, _, _, _)
link_indexed(g, node_id, ids, index, relationship) ==
    IF ids = <<>>
    THEN g
    ELSE link_indexed(IF Head(ids) \in index
                      THEN add_edge(g, node_id, Head(ids), [relationship |-> relationship])
                      ELSE g,
                      node_id, Tail(ids), index, relationship)

\* A faulty variant of add_gap_feature: the gap's type is not looked at.
add_gap_feature_always(self, gap_data) ==
    LET feature_id == feature_id_of(gap_name_of(gap_data))
        s1 == IF feature_id \notin self.feature_nodes
              THEN [self EXCEPT !.graph = add_node(@, feature_id,
                                   [type |-> <<"feature">>, name |-> gap_name_of(gap_data)]),
                                !.feature_nodes = @ \cup {feature_id}]
              ELSE self
    IN  [s1 EXCEPT !.graph = add_edge(@, gap_id_of(gap_data), feature_id,
                                      [relationship |-> <<"suggests">>])]

\* add_gap, lines 126-138: a feature gap is also a potential feature.
add_gap_feature(self, gap_data) ==
    IF Get(gap_data, "type", <<"feature">>) = <<"feature">>
    THEN LET feature_id == feature_id_of(gap_name_of(gap_data))
             s1 == IF feature_id \notin self.feature_nodes
                   THEN [self EXCEPT !.graph = add_node(@, feature_id,
                                        [type |-> <<"feature">>, name |-> gap_name_of(gap_data)]),
                                     !.feature_nodes = @ \cup {feature_id}]
                   ELSE self
         IN  [s1 EXCEPT !.graph = add_edge(@, gap_id_of(gap_data), feature_id,
                                           [relationship |-> <<"suggests">>])]
    ELSE self

add_gap(self, gap_data, related_products) ==
    LET s1 == add_gap_node(self, gap_data)
        s2 == [s1 EXCEPT !.graph = link_indexed(@, gap_id_of(gap_data), related_products,
                                                s1.product_nodes, <<"identified_in">>)]
        s3 == add_gap_feature(s2, gap_data)
    IN  [self |-> s3, ret |-> gap_id_of(gap_data)]

need_id_of(need_data) == <<"need:">> \o Slug(Get(need_data, "name", <<"Unknown Need">>))

add_user_need(self, need_data, related_features) ==
    LET need_id == need_id_of(need_data)
        g1 == add_node(self.graph, need_id,
                 [type |-> <<"user_need">>,
                  name |-> Get(need_data, "name", <<"Unknown Need">>),
                  description |-> Get(need_data, "description", EmptyStr),
                  importance |-> Get(need_data, "importance", <<"medium">>)])
        g2 == link_indexed(g1, need_id, related_features, self.feature_nodes, <<"addressed_by">>)
    IN  [self |-> [self EXCEPT !.graph = g2, !.user_need_nodes = @ \cup {need_id}],
         ret |-> need_id]

company_id_of(company_data) ==
    <<"company:">> \o Slug(Get(company_data, "name", <<"Unknown Company">>))

add_company(self, company_data, company_products) ==
    LET company_id == company_id_of(company_data)
        g1 == add_node(self.graph, company_id,
                 [type |-> <<"company">>,
                  name |-> Get(company_data, "name", <<"Unknown Company">>),
                  description |-> Get(company_data, "description", EmptyStr),
                  url |-> Get(company_data, "url", EmptyStr),
                  size |-> Get(company_data, "size", EmptyStr),
                  funding |-> Get(company_data, "funding", EmptyStr)])
        g2 == link_indexed(g1, company_id, company_products, self.product_nodes, <<"makes">>)
    IN  [self |-> [self EXCEPT !.graph = g2, !.company_nodes = @ \cup {company_id}],
         ret |-> company_id]

\* A faulty variant of relationship_allowed: one endpoint is enough.
relationship_allowed_either(self, source_id, target_id) ==
    HasNode(self.graph, source_id) \/ HasNode(self.graph, target_id)

\* add_relationship, line 237: both endpoints must be nodes of the graph.
relationship_allowed(self, source_id, target_id) ==
    HasNode(self.graph, source_id) /\ HasNode(self.graph, target_id)

\* add_relationship: the store after the call and the bool returned.
add_relationship(self, source_id, target_id, relationship_type, properties) ==
    IF relationship_allowed(self, source_id, target_id)
    THEN [self |-> [self EXCEPT !.graph = add_edge(@, source_id, target_id,
                        Update([relationship |-> relationship_type], properties))],
          ret |-> True]
    ELSE [self |-> self, ret |-> False]

(***************************************************************************)
(* Queries.  A Python float that is the quotient of two small integers is  *)
(* the fraction in lowest terms, <<numerator, denominator>>.  The order in *)
(* which a Python set is iterated is decided by the hashes of its members, *)
(* which differ from one process to the next: it is an argument, order.    *)
(***************************************************************************)
RECURSIVE Gcd(_, _)
Gcd(a, b) == IF b = 0 THEN a ELSE Gcd(b, a % b)

\* a / b, for b > 0
Quotient(a, b) == <<a \div Gcd(a, b), b \div Gcd(a, b)>>

Zero == Quotient(0, 1)

\* x >= y
AtLeast(x, y) == x[1] * y[2] >= y[1] * x[2]

\* The orders a set can be iterated in.
RECURSIVE Orders(_)
Orders(S) ==
    IF S = {} THEN {<<>>} ELSE UNION {{<<x>> \o o : o \in Orders(S \ {x})} : x \in S}

\* sorted(scores, key=lambda x: x[1], reverse=True): stable, so entries
\* with equal scores keep the order they were appended in.
RECURSIVE sorted_by_score(_)
sorted_by_score(scores) ==
    IF scores = <<>>
    THEN <<>>
    ELSE LET x == scores[Len(scores)]
             front == sorted_by_score(SubSeq(scores, 1, Len(scores) - 1))
             keep == {i \in 1..Len(front) : AtLeast(front[i][2], x[2])}
             k == Cardinality(keep)
         IN  SubSeq(front, 1, k) \o <<x>> \o SubSeq(front, k + 1, Len(front))

\* find_similar_products, lines 266-267 and 273-274.
features_of(self, product_id) ==
    {neighbor \in neighbors(self.graph, product_id) : neighbor \in self.feature_nodes}

\* A faulty variant of similarity: the share of the product's own features
\* that the other product has.
similarity_over_own_features(product_features, other_features) ==
    IF product_features = {} \/ other_features = {}
    THEN Zero
    ELSE Quotient(Cardinality(product_features \cap other_features),
                  Cardinality(product_features))

\* A faulty variant of similarity: the union counted as the sum of the sizes.
similarity_sum_of_sizes(product_features, other_features) ==
    IF product_features = {} \/ other_features = {}
    THEN Zero
    ELSE Quotient(Cardinality(product_features \cap other_features),
                  Cardinality(product_features) + Cardinality(other_features))

\* find_similar_products, lines 276-282: Jaccard similarity.
similarity(product_features, other_features) ==
    IF product_features = {} \/ other_features = {}
    THEN Zero
    ELSE Quotient(Cardinality(product_features \cap other_features),
                  Cardinality(product_features \cup other_features))

\* find_similar_products, lines 269-285: the loop over self.product_nodes.
RECURSIVE similarity_scores(_, _, _, _)
similarity_scores(self, product_id, similarity_threshold, order) ==
    IF order = <<>>
    THEN <<>>
    ELSE LET other_product == Head(order)
             rest == similarity_scores(self, product_id, similarity_threshold, Tail(order))
             s == similarity(features_of(self, product_id), features_of(self, other_product))
         IN  IF other_product = product_id
             THEN rest
             ELSE IF AtLeast(s, similarity_threshold)
                  THEN <<<<other_product, s>>>> \o rest
                  ELSE rest

\* find_similar_products assigns to locals only (similarity_scores,
\* product_features, other_features): the store after the call.
after_find_similar_products(self, product_id, similarity_threshold) == self

find_similar_products(self, product_id, similarity_threshold, order) ==
    IF product_id \notin self.product_nodes
    THEN <<>>
    ELSE sorted_by_score(similarity_scores(self, product_id, similarity_threshold, order))

\* find_gaps_for_product assigns to the local gaps only: the store after
\* the call.
after_find_gaps_for_product(self, product_id) == self

\* A faulty variant of find_gaps_for_product: the ID is not looked up in
\* product_nodes first.
find_gaps_for_product_unguarded(self, product_id) ==
    SelectSeq(self.graph.nodes,
              LAMBDA node : StartsWith(node, "gap:")
                            /\ product_id \in neighbors(self.graph, node))

\* find_gaps_for_product: the gap nodes next to the product, in node order.
find_gaps_for_product(self, product_id) ==
    IF product_id \notin self.product_nodes
    THEN <<>>
    ELSE SelectSeq(self.graph.nodes,
                   LAMBDA node : StartsWith(node, "gap:")
                                 /\ product_id \in neighbors(self.graph, node))

\* find_feature_gap_opportunities, lines 325-326.
products_with_feature(self, feature) ==
    {neighbor \in neighbors(self.graph, feature) : neighbor \in self.product_nodes}

\* list(a_set): its members in the set's iteration order.
ListOf(S, order) == SelectSeq(order, LAMBDA x : x \in S)

\* A faulty variant of opportunity: more than min_products owners are asked for.
opportunity_strict(self, feature, min_products, product_order) ==
    LET with == products_with_feature(self, feature)
        without == self.product_nodes \ with
    IN  IF Cardinality(with) > min_products /\ without # {}
        THEN << <<feature, ListOf(without, product_order)>> >>
        ELSE <<>>

\* find_feature_gap_opportunities, lines 328-333: one round of the loop.
opportunity(self, feature, min_products, product_order) ==
    LET with == products_with_feature(self, feature)
        without == self.product_nodes \ with
    IN  IF Cardinality(with) >= min_products /\ without # {}
        THEN << <<feature, ListOf(without, product_order)>> >>
        ELSE <<>>

RECURSIVE opportunities(_, _, _, _)
opportunities(self, min_products, feature_order, product_order) ==
    IF feature_order = <<>>
    THEN <<>>
    ELSE opportunity(self, Head(feature_order), min_products, product_order)
         \o opportunities(self, min_products, Tail(feature_order), product_order)

\* find_feature_gap_opportunities assigns to locals only; the difference of
\* line 330 is a new set: the store after the call.
after_find_feature_gap_opportunities(self, min_products) == self

find_feature_gap_opportunities(self, min_products, feature_order, product_order) ==
    opportunities(self, min_products, feature_order, product_order)

(***************************************************************************)
(* Serialization.  A document is a dict with the lists "nodes" and         *)
(* "edges"; the entries are dicts.                                         *)
(***************************************************************************)
\* dict.pop(k), on a dict that has the key: the dict without it.
Pop(d, k) == [x \in DOMAIN d \ {k} |-> d[x]]

IndexOf(seq, x) == CHOOSE i \in 1..Len(seq) : seq[i] = x

\* Graph.edges(data=True): the nodes in node order, for each its adjacency
\* in insertion order, an edge is reported from the endpoint met first.
edges_from(g, n) ==
    LET touching == SelectSeq(g.edges, LAMBDA e : n \in e)
        other(e) == IF e = {n} THEN n ELSE CHOOSE m \in e : m # n
        unseen == SelectSeq(touching, LAMBDA e : IndexOf(g.nodes, other(e)) >= IndexOf(g.nodes, n))
    IN  [i \in 1..Len(unseen) |-> <<n, other(unseen[i]), g.eattrs[unseen[i]]>>]

RECURSIVE edges_data(_, _)
edges_data(g, i) ==
    IF i > Len(g.nodes) THEN <<>> ELSE edges_from(g, g.nodes[i]) \o edges_data(g, i + 1)

\* export_to_json, lines 464-467: id, then the node's attributes over it.
node_info_of(g, node_id) == Update([id |-> node_id], g.attrs[node_id])

\* export_to_json, lines 470-476: source and target, then the edge's data over them.
edge_info_of(edge) == Update([source |-> edge[1], target |-> edge[2]], edge[3])

\* A faulty variant of after_export_to_json: node_info is the node's own
\* attribute dict, not a new dict updated from it, so the id is written
\* into the store.
after_export_to_json_aliasing(self) ==
    [self EXCEPT !.graph.attrs = [n \in DOMAIN @ |-> Update(@[n], [id |-> n])]]

\* export_to_json, lines 465-466 and 471-475: node_info and edge_info are
\* new dicts updated from the attribute dicts, which are only read: the
\* store after the call.
after_export_to_json(self) == self

export_to_json(self) ==
    LET g == self.graph
        ed == edges_data(g, 1)
    IN  [nodes |-> [i \in 1..Len(g.nodes) |-> node_info_of(g, g.nodes[i])],
         edges |-> [i \in 1..Len(ed) |-> edge_info_of(ed[i])]]

None == <<"None">>

KeyError == <<"KeyError">>

\* import_from_json, lines 500-511: the index the node's type names.
index_node(self, node_id, node_type) ==
    [self EXCEPT
        !.product_nodes = IF node_type = <<"product">> THEN @ \cup {node_id} ELSE @,
        !.feature_nodes = IF node_type = <<"feature">> THEN @ \cup {node_id} ELSE @,
        !.category_nodes = IF node_type = <<"category">> THEN @ \cup {node_id} ELSE @,
        !.company_nodes = IF node_type = <<"company">> THEN @ \cup {node_id} ELSE @,
        !.user_need_nodes = IF node_type = <<"user_need">> THEN @ \cup {node_id} ELSE @]

\* import_from_json, lines 496-511, for the i-th node entry and those after
\* it.  r holds the store, the caller's document (pop changes its entries)
\* and the exception raised, if any.
RECURSIVE import_nodes(_, _)
import_nodes(r, i) ==
    IF i > Len(r.json_graph.nodes)
    THEN r
    ELSE LET node_info == r.json_graph.nodes[i]
         IN  IF "id" \notin DOMAIN node_info
             THEN [r EXCEPT !.raised = KeyError]
             ELSE LET node_id == node_info.id
                      rest == Pop(node_info, "id")
                      s1 == [r.self EXCEPT !.graph = add_node(@, node_id, rest)]
                      s2 == index_node(s1, node_id, Get(rest, "type", <<"unknown">>))
                  IN  import_nodes([r EXCEPT !.self = s2, !.json_graph.nodes[i] = rest], i + 1)

\* import_from_json, lines 514-517, for the i-th edge entry and those after it.
RECURSIVE import_edges(_, _)
import_edges(r, i) ==
    IF i > Len(r.json_graph.edges)
    THEN r
    ELSE LET edge_info == r.json_graph.edges[i]
         IN  IF "source" \notin DOMAIN edge_info
             THEN [r EXCEPT !.raised = KeyError]
             ELSE IF "target" \notin DOMAIN edge_info
             THEN [r EXCEPT !.raised = KeyError,
                            !.json_graph.edges[i] = Pop(edge_info, "source")]
             ELSE LET rest == Pop(Pop(edge_info, "source"), "target")
                      s1 == [r.self EXCEPT !.graph = add_edge(@, edge_info.source,
                                                              edge_info.target, rest)]
                  IN  import_edges([r EXCEPT !.self = s1, !.json_graph.edges[i] = rest], i + 1)

\* import_from_json: the store is emptied, then rebuilt from the document.
\* self is the store after the call, json_graph the document after it,
\* raised the exception the call ended with (None: it returned).
import_from_json(self, json_graph) ==
    LET r0 == [self |-> KnowledgeGraph, json_graph |-> json_graph, raised |-> None]
        r1 == IF "nodes" \notin DOMAIN json_graph
              THEN [r0 EXCEPT !.raised = KeyError]
              ELSE import_nodes(r0, 1)
    IN  IF r1.raised # None
        THEN r1
        ELSE IF "edges" \notin DOMAIN json_graph
             THEN [r1 EXCEPT !.raised = KeyError]
             ELSE import_edges(r1, 1)

(***************************************************************************)
(* Inputs: the records and calls the operations are given.                 *)
(***************************************************************************)
FX == <<"x">>
FY == <<"D", " ", "m">>
FYlower == <<"d", " ", "m">>
FZ == <<"z">>
FW == <<"w">>

PA == <<"product:", "a">>
PB == <<"product:", "b">>
PC == <<"product:", "c", "_", "c">>
Ghost == <<"product:", "g">>

ProductRecords ==
    { [name |-> <<"A">>, feature_list |-> <<FX, FY, FZ>>, category |-> <<"P">>,
       description |-> <<"d">>],
      [name |-> <<"B">>, feature_list |-> <<FYlower, FZ, FW>>, category |-> <<"P">>],
      [name |-> <<"C", " ", "c">>, competitors |-> << <<"A">>, <<"G">> >>,
       categories |-> << <<"P">>, <<"R">> >>],
      [name |-> <<"A">>, feature_list |-> <<FW>>, category |-> <<"Q">>],
      [feature_list |-> <<FX>>] }

\* A description longer than the characters add_gap keeps of it.
LongDescription == [i \in 1..(GapNameLen + 2) |-> IF i = GapNameLen + 1 THEN "M" ELSE "m"]

GapCalls ==
    { [gap_data |-> [type |-> <<"feature">>, name |-> FY, description |-> <<"g">>],
       related_products |-> <<PA>>],
      [gap_data |-> [type |-> <<"market">>, description |-> LongDescription],
       related_products |-> <<PB, PA>>],
      [gap_data |-> [type |-> <<"pricing">>, name |-> <<"g">>],
       related_products |-> <<>>],
      [gap_data |-> [type |-> <<"experience">>, name |-> EmptyStr, description |-> <<"g">>],
       related_products |-> <<PA>>] }

UserNeedCalls ==
    { [need_data |-> [name |-> <<"N">>, importance |-> <<"high">>],
       related_features |-> <<feature_id_of(FX), feature_id_of(FY)>>] }

CompanyCalls ==
    { [company_data |-> [name |-> <<"C", "o">>], company_products |-> <<PA>>] }

RelationshipCall(source_id, target_id, relationship_type, properties) ==
    [source_id |-> source_id, target_id |-> target_id,
     relationship_type |-> relationship_type, properties |-> properties]

RelationshipCalls ==
    { RelationshipCall(PA, PB, <<"competes_with">>, [weight |-> <<"1">>]),
      RelationshipCall(PB, PA, <<"similar_to">>, [weight |-> <<"2">>]),
      RelationshipCall(PA, feature_id_of(FX), <<"has_feature">>, [weight |-> <<"1">>]),
      RelationshipCall(feature_id_of(FX), PA, <<"has_feature">>, [weight |-> <<"3">>]),
      RelationshipCall(PA, PB, <<"similar_to">>, [source |-> Ghost]),
      RelationshipCall(PB, feature_id_of(FX), <<"similar_to">>, EmptyDict),
      RelationshipCall(PA, feature_id_of(FX), <<"similar_to">>, EmptyDict),
      RelationshipCall(PA, Ghost, <<"similar_to">>, EmptyDict),
      RelationshipCall(Ghost, PB, <<"competes_with">>, [weight |-> <<"1">>]) }

\* Documents handed to import_from_json, besides the store's own export.
Documents ==
    { \* one ID listed twice, under two types
      [nodes |-> << [id |-> PA, type |-> <<"product">>, name |-> <<"A">>],
                    [id |-> PA, type |-> <<"feature">>, name |-> <<"A">>] >>,
       edges |-> <<>>],
      \* an edge to an ID that is no entry of nodes
      [nodes |-> << [id |-> PA, type |-> <<"product">>, name |-> <<"A">>] >>,
       edges |-> << [source |-> PA, target |-> Ghost, relationship |-> <<"similar_to">>] >>],
      \* a well-formed document
      [nodes |-> << [id |-> PB, type |-> <<"product">>, name |-> <<"B">>],
                    [id |-> feature_id_of(FZ), type |-> <<"feature">>, name |-> FZ] >>,
       edges |-> << [source |-> PB, target |-> feature_id_of(FZ),
                     relationship |-> <<"has_feature">>] >>],
      \* a node entry without id, after a valid entry
      [nodes |-> << [id |-> PB, type |-> <<"product">>, name |-> <<"B">>],
                    [type |-> <<"feature">>, name |-> FX] >>,
       edges |-> <<>>],
      \* no edges list
      [nodes |-> << [id |-> PA, type |-> <<"product">>, name |-> <<"A">>] >>],
      \* no nodes list
      [edges |-> <<>>],
      \* an edge entry without target, after a valid entry
      [nodes |-> << [id |-> PA, type |-> <<"product">>, name |-> <<"A">>],
                    [id |-> PB, type |-> <<"product">>, name |-> <<"B">>] >>,
       edges |-> << [source |-> PA, target |-> PB, relationship |-> <<"similar_to">>],
                    [source |-> PB, relationship |-> <<"similar_to">>] >>] }

QueryProducts == { PA, PC, Ghost, feature_id_of(FY) }

Thresholds == { Quotient(0, 1), Quotient(1, 2) }

MinProducts == { 0, 2 }

(***************************************************************************)
(* The operations as actions.  A query hands its result to the caller and  *)
(* leaves the store as it was, so what a write reaches after a query it    *)
(* reaches without it: a run of the model is writes, then at most one      *)
(* query (Writing).                                                        *)
(***************************************************************************)
Queries ==
    {"find_similar_products", "find_gaps_for_product", "find_feature_gap_opportunities",
     "export_to_json", "export_import", "find_popular_features", "find_missing_features"}

Writing == nops < MaxOps /\ last.op \notin Queries

Init ==
    /\ knowledge_graph = KnowledgeGraph
    /\ last = [op |-> "init"]
    /\ nops = 0

AddProduct ==
    \E product_data \in ProductRecords :
        LET r == add_product(knowledge_graph, product_data)
        IN  /\ Writing
            /\ knowledge_graph' = r.self
            /\ last' = [op |-> "add_product", product_data |-> product_data, ret |-> r.ret]
            /\ nops' = nops + 1

AddGap ==
    \E c \in GapCalls :
        LET r == add_gap(knowledge_graph, c.gap_data, c.related_products)
        IN  /\ Writing
            /\ knowledge_graph' = r.self
            /\ last' = [op |-> "add_gap", gap_data |-> c.gap_data,
                        related_products |-> c.related_products, ret |-> r.ret]
            /\ nops' = nops + 1

AddUserNeed ==
    \E c \in UserNeedCalls :
        LET r == add_user_need(knowledge_graph, c.need_data, c.related_features)
        IN  /\ Writing
            /\ knowledge_graph' = r.self
            /\ last' = [op |-> "add_user_need", need_data |-> c.need_data,
                        related_features |-> c.related_features, ret |-> r.ret]
            /\ nops' = nops + 1

AddCompany ==
    \E c \in CompanyCalls :
        LET r == add_company(knowledge_graph, c.company_data, c.company_products)
        IN  /\ Writing
            /\ knowledge_graph' = r.self
            /\ last' = [op |-> "add_company", company_data |-> c.company_data,
                        company_products |-> c.company_products, ret |-> r.ret]
            /\ nops' = nops + 1

AddRelationship ==
    \E c \in RelationshipCalls :
        LET r == add_relationship(knowledge_graph, c.source_id, c.target_id,
                                  c.relationship_type, c.properties)
        IN  /\ Writing
            /\ knowledge_graph' = r.self
            /\ last' = [op |-> "add_relationship", source_id |-> c.source_id,
                        target_id |-> c.target_id, relationship_type |-> c.relationship_type,
                        properties |-> c.properties, ret |-> r.ret]
            /\ nops' = nops + 1

FindSimilarProducts ==
    \E product_id \in QueryProducts, similarity_threshold \in Thresholds,
       order \in Orders(knowledge_graph.product_nodes) :
        /\ last.op \notin Queries
        /\ last' = [op |-> "find_similar_products", product_id |-> product_id,
                    similarity_threshold |-> similarity_threshold,
                    result |-> find_similar_products(knowledge_graph, product_id,
                                                     similarity_threshold, order)]
        /\ knowledge_graph' = after_find_similar_products(knowledge_graph, product_id,
                                                          similarity_threshold)
        /\ UNCHANGED nops

FindGapsForProduct ==
    \E product_id \in QueryProducts :
        /\ last.op \notin Queries
        /\ last' = [op |-> "find_gaps_for_product", product_id |-> product_id,
                    result |-> find_gaps_for_product(knowledge_graph, product_id)]
        /\ knowledge_graph' = after_find_gaps_for_product(knowledge_graph, product_id)
        /\ UNCHANGED nops

FindFeatureGapOpportunities ==
    \E min_products \in MinProducts,
       feature_order \in Orders(knowledge_graph.feature_nodes),
       product_order \in Orders(knowledge_graph.product_nodes) :
        /\ last.op \notin Queries
        /\ last' = [op |-> "find_feature_gap_opportunities", min_products |-> min_products,
                    result |-> find_feature_gap_opportunities(knowledge_graph, min_products,
                                                              feature_order, product_order)]
        /\ knowledge_graph' = after_find_feature_gap_opportunities(knowledge_graph,
                                                                   min_products)
        /\ UNCHANGED nops

ExportToJson ==
    /\ last.op \notin Queries
    /\ last' = [op |-> "export_to_json", result |-> export_to_json(knowledge_graph)]
    /\ knowledge_graph' = after_export_to_json(knowledge_graph)
    /\ UNCHANGED nops

\* KnowledgeGraph().import_from_json(knowledge_graph.export_to_json()): the
\* export, imported into a store of its own.
ExportImport ==
    LET r == import_from_json(KnowledgeGraph, export_to_json(knowledge_graph))
    IN  /\ last.op \notin Queries
        /\ last' = [op |-> "export_import", store |-> r.self, ret |-> r.raised]
        /\ UNCHANGED <<knowledge_graph, nops>>

\* The four read operations.
Reads ==
    {"find_similar_products", "find_gaps_for_product", "find_feature_gap_opportunities",
     "export_to_json"}

\* The read recorded in call, made on self: the store after it and the
\* value returned.
read(self, call, feature_order, product_order) ==
    CASE call.op = "find_similar_products" ->
           [self |-> after_find_similar_products(self, call.product_id,
                                                 call.similarity_threshold),
            ret |-> find_similar_products(self, call.product_id,
                                          call.similarity_threshold, product_order)]
      [] call.op = "find_gaps_for_product" ->
           [self |-> after_find_gaps_for_product(self, call.product_id),
            ret |-> find_gaps_for_product(self, call.product_id)]
      [] call.op = "find_feature_gap_opportunities" ->
           [self |-> after_find_feature_gap_opportunities(self, call.min_products),
            ret |-> find_feature_gap_opportunities(self, call.min_products,
                                                   feature_order, product_order)]
      [] call.op = "export_to_json" ->
           [self |-> after_export_to_json(self), ret |-> export_to_json(self)]

\* The reads the callers make; find_feature_gap_opportunities with the
\* default of its parameter (line 311).
ReadCalls ==
    {[op |-> "find_similar_products", product_id |-> c[1], similarity_threshold |-> c[2]] :
        c \in QueryProducts \X Thresholds}
    \cup {[op |-> "find_gaps_for_product", product_id |-> p] : p \in QueryProducts}
    \cup {[op |-> "find_feature_gap_opportunities", min_products |-> 2]}
    \cup {[op |-> "export_to_json"]}

\* A read made twice in a row, nothing written in between.  A set that was
\* not changed is iterated in the order it was iterated in before, so both
\* calls meet the same orders.
ReadTwice ==
    \E call \in ReadCalls :
        \E feature_order \in IF call.op = "find_feature_gap_opportunities"
                              THEN Orders(knowledge_graph.feature_nodes) ELSE {<<>>},
           product_order \in IF call.op \in {"find_similar_products",
                                             "find_feature_gap_opportunities"}
                              THEN Orders(knowledge_graph.product_nodes) ELSE {<<>>} :
            LET r1 == read(knowledge_graph, call, feature_order, product_order)
                r2 == read(r1.self, call, feature_order, product_order)
            IN  /\ last.op \notin Queries
                /\ knowledge_graph' = r2.self
                /\ last' = call @@ [first |-> r1.ret, result |-> r2.ret]
                /\ UNCHANGED nops

ImportFromJson ==
    \E json_graph \in Documents \cup {export_to_json(knowledge_graph)} :
        LET r == import_from_json(knowledge_graph, json_graph)
        IN  /\ Writing
            /\ knowledge_graph' = r.self
            /\ last' = [op |-> "import_from_json", json_graph |-> json_graph,
                        after |-> r.json_graph, ret |-> r.raised]
            /\ nops' = nops + 1

Write ==
    \/ AddProduct
    \/ AddGap
    \/ AddUserNeed
    \/ AddCompany
    \/ AddRelationship

Query ==
    \/ FindSimilarProducts
    \/ FindGapsForProduct
    \/ FindFeatureGapOpportunities
    \/ ExportToJson
    \/ ExportImport

Next == Write \/ Query

\* The store under ingestion, add_relationship and the queries.
Spec == Init /\ [][Next]_vars

\* The store under ingestion and add_relationship alone.
SpecWrite == Init /\ [][Write]_vars

NextRead == Write \/ ReadTwice

\* The store under ingestion and add_relationship, and the reads made on
\* it, each twice in a row.
SpecRead == Init /\ [][NextRead]_vars

NextDoc == Write \/ ImportFromJson

\* The store under ingestion, add_relationship and import_from_json.
SpecDoc == Init /\ [][NextDoc]_vars

(***************************************************************************)
(* The store as the claims speak of it: a node's type is its type          *)
(* attribute in the node table, two nodes are connected when an edge joins *)
(* them.  None of this reads the per-type indices.                         *)
(***************************************************************************)
NodeIds(self) == DOMAIN self.graph.attrs

TypeOf(self, n) == Get(self.graph.attrs[n], "type", <<"(none)">>)

NodesOfType(self, t) == {n \in NodeIds(self) : TypeOf(self, n) = t}

Products(self) == NodesOfType(self, <<"product">>)

Features(self) == NodesOfType(self, <<"feature">>)

Connected(self, a, b) == {a, b} \in DOMAIN self.graph.eattrs

\* F(P): the Feature-node neighbours of P.
FeatureSet(self, p) == {f \in Features(self) : Connected(self, p, f)}

\* The Product neighbours of a feature.
Owners(self, f) == {p \in Products(self) : Connected(self, f, p)}

\* score = |a intersect b| / |a union b|, and 0 when a or b is empty.
IsJaccard(score, a, b) ==
    /\ score[2] > 0
    /\ IF a = {} \/ b = {}
       THEN score[1] = 0
       ELSE score[1] * Cardinality(a \cup b) = score[2] * Cardinality(a \cap b)

\* s(a, b) >= t
JaccardAtLeast(a, b, t) ==
    IF a = {} \/ b = {}
    THEN 0 >= t[1]
    ELSE Cardinality(a \cap b) * t[2] >= t[1] * Cardinality(a \cup b)

\* The two products of the spec's scenarios: features [x, y, z] and [y, z, w].
ScenarioAB ==
    /\ Products(knowledge_graph) = {PA, PB}
    /\ FeatureSet(knowledge_graph, PA) = {feature_id_of(FX), feature_id_of(FY), feature_id_of(FZ)}
    /\ FeatureSet(knowledge_graph, PB) = {feature_id_of(FY), feature_id_of(FZ), feature_id_of(FW)}

\* ord() of the characters product IDs are made of; every product ID starts
\* with the same "product:".
CodePoint(c) ==
    CASE c = "product:" -> 112
      [] c = "_" -> 95
      [] c = "a" -> 97
      [] c = "b" -> 98
      [] c = "c" -> 99
      [] c = "g" -> 103
      [] c = " " -> 32
      [] c = "D" -> 68
      [] c = "d" -> 100
      [] c = "m" -> 109
      [] c = "w" -> 119
      [] c = "x" -> 120
      [] c = "z" -> 122

\* a < b, as Python compares two strs.
RECURSIVE StrLess(_, _)
StrLess(a, b) ==
    IF b = <<>> THEN FALSE
    ELSE IF a = <<>> THEN TRUE
    ELSE IF Head(a) = Head(b) THEN StrLess(Tail(a), Tail(b))
    ELSE CodePoint(Head(a)) < CodePoint(Head(b))

ValidationError == <<"ValidationError">>

\* The slug of a name: lower-cased, spaces to underscores.
SlugOf(name) == [i \in 1..Len(name) |-> IF name[i] = " " THEN "_" ELSE LowerChar(name[i])]

Occurrences(seq, x) == Cardinality({i \in 1..Len(seq) : seq[i] = x})

NameOf(self, n) == Get(self.graph.attrs[n], "name", EmptyStr)

OneFeaturePerSlug(self) ==
    \A f1, f2 \in Features(self) :
        SlugOf(NameOf(self, f1)) = SlugOf(NameOf(self, f2)) => f1 = f2

SameStore(a, b) ==
    /\ NodeIds(a) = NodeIds(b)
    /\ a.graph.attrs = b.graph.attrs
    /\ DOMAIN a.graph.eattrs = DOMAIN b.graph.eattrs
    /\ a.graph.eattrs = b.graph.eattrs
    /\ a.product_nodes = b.product_nodes
    /\ a.feature_nodes = b.feature_nodes
    /\ a.category_nodes = b.category_nodes
    /\ a.company_nodes = b.company_nodes
    /\ a.user_need_nodes = b.user_need_nodes

(***************************************************************************)
(* C1: for a product P of the store and a threshold t,                     *)
(* find_similar_products(P, t) lists, once each, exactly the products Q    *)
(* other than P whose Jaccard similarity to P over their Feature-node      *)
(* neighbours is at least t (0 when either has no feature), each with that *)
(* similarity, which lies in [0, 1].                                       *)
(***************************************************************************)
C1_SimilarProductsAreTheJaccardMatches ==
    (last.op = "find_similar_products" /\ last.product_id \in Products(knowledge_graph)) =>
        LET P == last.product_id
            res == last.result
            expected == {Q \in Products(knowledge_graph) \ {P} :
                            JaccardAtLeast(FeatureSet(knowledge_graph, P),
                                           FeatureSet(knowledge_graph, Q),
                                           last.similarity_threshold)}
        IN  /\ Len(res) = Cardinality(expected)
            /\ {res[i][1] : i \in 1..Len(res)} = expected
            /\ \A i \in 1..Len(res) :
                 /\ IsJaccard(res[i][2], FeatureSet(knowledge_graph, P),
                              FeatureSet(knowledge_graph, res[i][1]))
                 /\ 0 <= res[i][2][1]
                 /\ res[i][2][1] <= res[i][2][2]

\* Scenario A: similarity(A, B) = 2/4, returned at threshold 1/2.
C1_Witness ==
    /\ ScenarioAB
    /\ last.op = "find_similar_products"
    /\ last.product_id = PA
    /\ last.similarity_threshold = <<1, 2>>
    /\ last.result = << <<PB, <<1, 2>>>> >>

(***************************************************************************)
(* C2: the list find_similar_products returns is in descending order of    *)
(* score, and entries of equal score are in ascending order of product ID. *)
(***************************************************************************)
C2_SortedByScoreThenProductId ==
    last.op = "find_similar_products" =>
        \A i \in 1..(Len(last.result) - 1) :
            LET x == last.result[i]
                y == last.result[i + 1]
            IN  \/ x[2][1] * y[2][2] > y[2][1] * x[2][2]
                \/ /\ x[2] = y[2]
                   /\ StrLess(x[1], y[1])

(***************************************************************************)
(* C3: find_feature_gap_opportunities(min_products) has an entry for a     *)
(* feature exactly when at least min_products products are its neighbours  *)
(* and some product is not; the entry lists exactly the products that are  *)
(* not.  So no entry is for a feature every product owns, and for the two  *)
(* products of scenario B and min_products = 2 the list is empty.          *)
(***************************************************************************)
C3_GapOpportunities ==
    last.op = "find_feature_gap_opportunities" =>
        LET res == last.result
            all == Products(knowledge_graph)
            missing(f) == all \ Owners(knowledge_graph, f)
        IN  /\ \A f \in Features(knowledge_graph) :
                 (\E i \in 1..Len(res) : res[i][1] = f)
                 <=> /\ Cardinality(Owners(knowledge_graph, f)) >= last.min_products
                     /\ missing(f) # {}
            /\ \A i \in 1..Len(res) :
                 /\ res[i][1] \in Features(knowledge_graph)
                 /\ Range(res[i][2]) = missing(res[i][1])
                 /\ Len(res[i][2]) = Cardinality(missing(res[i][1]))
                 /\ Owners(knowledge_graph, res[i][1]) # all
                 /\ \A j \in 1..Len(res) : res[j][1] = res[i][1] => j = i
            /\ (ScenarioAB /\ last.min_products = 2) => res = <<>>

\* Two products own a feature and a third does not.
C3_Witness ==
    /\ last.op = "find_feature_gap_opportunities"
    /\ last.min_products = 2
    /\ \E i \in 1..Len(last.result) :
         /\ last.result[i][1] = feature_id_of(FZ)
         /\ last.result[i][2] = <<PC>>
         /\ Owners(knowledge_graph, feature_id_of(FZ)) = {PA, PB}

(***************************************************************************)
(* C4: in every state reached by ingestion, add_relationship and           *)
(* import_from_json, each per-type index is the set of the nodes whose     *)
(* type attribute is that type.                                            *)
(***************************************************************************)
C4_IndicesMatchNodeTypes ==
    /\ knowledge_graph.product_nodes = NodesOfType(knowledge_graph, <<"product">>)
    /\ knowledge_graph.feature_nodes = NodesOfType(knowledge_graph, <<"feature">>)
    /\ knowledge_graph.category_nodes = NodesOfType(knowledge_graph, <<"category">>)
    /\ knowledge_graph.company_nodes = NodesOfType(knowledge_graph, <<"company">>)
    /\ knowledge_graph.user_need_nodes = NodesOfType(knowledge_graph, <<"user_need">>)

(***************************************************************************)
(* C5: add_relationship(a, b, r, props) with a or b no node of the store   *)
(* returns False and leaves the store as it was: nodes, attributes, edges, *)
(* edge properties and indices.                                            *)
(***************************************************************************)
C5_UnknownNodeLeavesStoreUnchanged ==
    [][ ( /\ last'.op = "add_relationship"
          /\ nops' = nops + 1
          /\ ~ ( /\ last'.source_id \in NodeIds(knowledge_graph)
                 /\ last'.target_id \in NodeIds(knowledge_graph) ) )
        => ( /\ knowledge_graph' = knowledge_graph
             /\ last'.ret = False ) ]_vars

\* An existing product asked to be linked to an ID that is no node.
C5_Witness ==
    /\ last.op = "add_relationship"
    /\ last.source_id = PA
    /\ last.target_id = Ghost
    /\ PA \in NodeIds(knowledge_graph)
    /\ Ghost \notin NodeIds(knowledge_graph)
    /\ last.ret = False

(***************************************************************************)
(* C6: in every state reached by ingestion, add_relationship and           *)
(* import_from_json, both endpoints of every edge are nodes that were      *)
(* created as nodes: each carries a type attribute.                        *)
(***************************************************************************)
C6_EdgesJoinCreatedNodes ==
    \A e \in DOMAIN knowledge_graph.graph.eattrs :
        \A n \in e :
            /\ n \in NodeIds(knowledge_graph)
            /\ "type" \in DOMAIN knowledge_graph.graph.attrs[n]

(***************************************************************************)
(* C7: add_product with a record that has no name reports a validation     *)
(* error and adds nothing to the store: no node, no edge, no index entry.  *)
(***************************************************************************)
C7_MissingNameIsRejected ==
    [][ ( /\ last'.op = "add_product"
          /\ nops' = nops + 1
          /\ "name" \notin DOMAIN last'.product_data )
        => ( /\ knowledge_graph' = knowledge_graph
             /\ last'.ret = ValidationError ) ]_vars

(***************************************************************************)
(* C8: add_product under a name whose product is already in the store adds *)
(* no second product node (the product ID is one node and one index        *)
(* entry), keeps every feature and category connection the product had,    *)
(* and connects the product to the features and the category of the new    *)
(* record.                                                                 *)
(***************************************************************************)
C8_ReingestionKeepsOneNodeAndItsConnections ==
    [][ ( /\ last'.op = "add_product"
          /\ nops' = nops + 1
          /\ last'.ret \in Products(knowledge_graph) )
        => LET p == last'.ret
               record == last'.product_data
               feature_list == Get(record, "feature_list", <<>>)
           IN  /\ Products(knowledge_graph') = Products(knowledge_graph)
               /\ knowledge_graph'.product_nodes = knowledge_graph.product_nodes
               /\ Occurrences(knowledge_graph'.graph.nodes, p) = 1
               /\ \A n \in NodeIds(knowledge_graph) :
                    ( /\ TypeOf(knowledge_graph, n) \in {<<"feature">>, <<"category">>}
                      /\ Connected(knowledge_graph, p, n) )
                    => ( /\ n \in NodeIds(knowledge_graph')
                         /\ TypeOf(knowledge_graph', n) = TypeOf(knowledge_graph, n)
                         /\ Connected(knowledge_graph', p, n) )
               /\ \A i \in 1..Len(feature_list) :
                    LET f == <<"feature:">> \o SlugOf(feature_list[i])
                    IN  f \in Features(knowledge_graph') /\ Connected(knowledge_graph', p, f)
               /\ "category" \in DOMAIN record =>
                    LET c == <<"category:">> \o SlugOf(record.category)
                    IN  /\ c \in NodesOfType(knowledge_graph', <<"category">>)
                        /\ Connected(knowledge_graph', p, c) ]_vars

\* Product A ingested with [x, D m, z] under category P, then again with
\* [w] under category Q.
C8_Witness ==
    /\ last.op = "add_product"
    /\ last.ret = PA
    /\ last.product_data.feature_list = <<FW>>
    /\ FeatureSet(knowledge_graph, PA)
         = {feature_id_of(FX), feature_id_of(FY), feature_id_of(FZ), feature_id_of(FW)}
    /\ Connected(knowledge_graph, PA, category_id_of(<<"P">>))
    /\ Connected(knowledge_graph, PA, category_id_of(<<"Q">>))

(***************************************************************************)
(* C9: under ingestion there is at most one Feature node per slug, a       *)
(* Feature node keeps its slug and its products, and add_product connects  *)
(* the product to the Feature node of the slug of every name in its        *)
(* feature list: products naming 'D m' and 'd m' share one Feature node.   *)
(***************************************************************************)
C9_FeaturesAreSharedBySlug ==
    [][ /\ OneFeaturePerSlug(knowledge_graph')
        /\ \A f \in Features(knowledge_graph) :
             /\ f \in Features(knowledge_graph')
             /\ SlugOf(NameOf(knowledge_graph', f)) = SlugOf(NameOf(knowledge_graph, f))
             /\ Owners(knowledge_graph, f) \subseteq Owners(knowledge_graph', f)
        /\ (last'.op = "add_product" /\ nops' = nops + 1) =>
             LET feature_list == Get(last'.product_data, "feature_list", <<>>)
             IN  \A i \in 1..Len(feature_list) :
                     \E f \in Features(knowledge_graph') :
                         /\ SlugOf(NameOf(knowledge_graph', f)) = SlugOf(feature_list[i])
                         /\ Connected(knowledge_graph', last'.ret, f) ]_vars

\* A was given 'D m' and B 'd m': one Feature node, a neighbour of both.
C9_Witness ==
    /\ ScenarioAB
    /\ Cardinality({f \in Features(knowledge_graph) :
                       SlugOf(NameOf(knowledge_graph, f)) = SlugOf(FY)}) = 1
    /\ \E f \in Features(knowledge_graph) :
         /\ SlugOf(NameOf(knowledge_graph, f)) = SlugOf(FY)
         /\ NameOf(knowledge_graph, f) = FYlower
         /\ Owners(knowledge_graph, f) = {PA, PB}

(***************************************************************************)
(* C10: importing the export of a store built by ingestion and             *)
(* add_relationship gives the store again: the same node IDs with the same *)
(* attributes, the same edges with the same relationship and properties,   *)
(* the same indices.                                                       *)
(***************************************************************************)
C10_ExportImportRoundTrip ==
    last.op = "export_import" =>
        /\ last.ret = None
        /\ SameStore(last.store, knowledge_graph)

\* The entries of a list of a document; none when the document has no such list.
Entries(doc, key) == IF key \in DOMAIN doc THEN doc[key] ELSE <<>>

\* A document import_from_json cannot read to its end.
Malformed(doc) ==
    \/ "nodes" \notin DOMAIN doc
    \/ "edges" \notin DOMAIN doc
    \/ \E i \in 1..Len(Entries(doc, "nodes")) : "id" \notin DOMAIN doc.nodes[i]
    \/ \E i \in 1..Len(Entries(doc, "edges")) :
          "source" \notin DOMAIN doc.edges[i] \/ "target" \notin DOMAIN doc.edges[i]

EmptyStore(self) ==
    /\ NodeIds(self) = {}
    /\ self.graph.nodes = <<>>
    /\ DOMAIN self.graph.eattrs = {}
    /\ self.graph.edges = <<>>
    /\ self.product_nodes = {}
    /\ self.feature_nodes = {}
    /\ self.category_nodes = {}
    /\ self.company_nodes = {}
    /\ self.user_need_nodes = {}

(***************************************************************************)
(* C11: import_from_json of a malformed document (no nodes list, no edges  *)
(* list, a node entry without id, an edge entry without source or target)  *)
(* ends with an error for the caller and leaves the store empty: no node,  *)
(* no edge, empty indices, also when valid entries come before the         *)
(* malformed one.                                                          *)
(***************************************************************************)
C11_MalformedDocumentLeavesEmptyStore ==
    (last.op = "import_from_json" /\ Malformed(last.json_graph)) =>
        /\ last.ret # None
        /\ EmptyStore(knowledge_graph)

\* The IDs of the node entries of a document whose type is t.
DocIdsOfType(doc, t) ==
    {doc.nodes[i].id : i \in {j \in 1..Len(doc.nodes) :
                                 Get(doc.nodes[j], "type", <<"unknown">>) = t}}

(***************************************************************************)
(* C12: after import_from_json(doc) has returned, the nodes of the store   *)
(* are exactly the IDs of doc's node entries and its edges exactly the     *)
(* pairs of doc's edge entries, whatever the store held before; a node or  *)
(* edge listed once has the attributes of its entry; each per-type index   *)
(* is the set of IDs of the node entries of that type.                     *)
(***************************************************************************)
C12_ImportHoldsExactlyTheDocument ==
    (last.op = "import_from_json" /\ last.ret = None) =>
        LET doc == last.json_graph
            self == knowledge_graph
        IN  /\ NodeIds(self) = {doc.nodes[i].id : i \in 1..Len(doc.nodes)}
            /\ Range(self.graph.nodes) = NodeIds(self)
            /\ DOMAIN self.graph.eattrs
                 = {{doc.edges[i].source, doc.edges[i].target} : i \in 1..Len(doc.edges)}
            /\ Range(self.graph.edges) = DOMAIN self.graph.eattrs
            /\ \A i \in 1..Len(doc.nodes) :
                 (\A j \in 1..Len(doc.nodes) : doc.nodes[j].id = doc.nodes[i].id => j = i)
                 => self.graph.attrs[doc.nodes[i].id]
                      = [k \in DOMAIN doc.nodes[i] \ {"id"} |-> doc.nodes[i][k]]
            /\ \A i \in 1..Len(doc.edges) :
                 LET e == {doc.edges[i].source, doc.edges[i].target}
                 IN  (\A j \in 1..Len(doc.edges) :
                         {doc.edges[j].source, doc.edges[j].target} = e => j = i)
                     => /\ e \in DOMAIN self.graph.eattrs
                        /\ self.graph.eattrs[e]
                             = [k \in DOMAIN doc.edges[i] \ {"source", "target"}
                                  |-> doc.edges[i][k]]
            /\ self.product_nodes = DocIdsOfType(doc, <<"product">>)
            /\ self.feature_nodes = DocIdsOfType(doc, <<"feature">>)
            /\ self.category_nodes = DocIdsOfType(doc, <<"category">>)
            /\ self.company_nodes = DocIdsOfType(doc, <<"company">>)
            /\ self.user_need_nodes = DocIdsOfType(doc, <<"user_need">>)

(***************************************************************************)
(* C13: find_similar_products and find_gaps_for_product, asked about an ID *)
(* that is no product of the store, return the empty list and leave the    *)
(* store as it was.                                                        *)
(***************************************************************************)
C13_UnknownProductGivesEmptyList ==
    [][ ( /\ last'.op \in {"find_similar_products", "find_gaps_for_product"}
          /\ last.op \notin Queries
          /\ last'.product_id \notin Products(knowledge_graph) )
        => ( /\ last'.result = <<>>
             /\ knowledge_graph' = knowledge_graph ) ]_vars

\* find_similar_products about an ID that is no node, in a store with
\* products.
C13_Witness ==
    /\ last.op = "find_similar_products"
    /\ last.product_id = Ghost
    /\ last.similarity_threshold = Zero
    /\ {PA, PB} \subseteq Products(knowledge_graph)
    /\ Ghost \notin NodeIds(knowledge_graph)
    /\ last.result = <<>>

\* The relationship recorded between two connected nodes.
RelationshipOf(self, a, b) == Get(self.graph.eattrs[{a, b}], "relationship", EmptyStr)

Linked(self, a, b, relationship) ==
    Connected(self, a, b) /\ RelationshipOf(self, a, b) = relationship

(***************************************************************************)
(* C14: every entry of the list find_feature_gap_opportunities returns     *)
(* carries, after the feature and the products missing it, the strength    *)
(* |owners| / (|owners| + |missing|) of the feature, and the list is in    *)
(* descending order of strength.                                           *)
(***************************************************************************)
C14_EntriesCarryStrengthAndAreSorted ==
    last.op = "find_feature_gap_opportunities" =>
        LET res == last.result
            owners(i) == Cardinality(Owners(knowledge_graph, res[i][1]))
        IN  /\ \A i \in 1..Len(res) :
                 /\ Len(res[i]) = 3
                 /\ res[i][3] = Quotient(owners(i), owners(i) + Len(res[i][2]))
            /\ \A i \in 1..(Len(res) - 1) : AtLeast(res[i][3], res[i + 1][3])

(***************************************************************************)
(* C15: add_product with a record that names competitors connects the     *)
(* product by competes_with to every competitor that is already a product  *)
(* of the store; a competitor that is no product of the store becomes no   *)
(* node.                                                                   *)
(***************************************************************************)
C15_CompetitorsAreLinked ==
    [][ ( /\ last'.op = "add_product"
          /\ nops' = nops + 1
          /\ "competitors" \in DOMAIN last'.product_data )
        => \A i \in 1..Len(last'.product_data.competitors) :
               LET q == <<"product:">> \o SlugOf(last'.product_data.competitors[i])
               IN  IF q \in Products(knowledge_graph)
                   THEN Linked(knowledge_graph', last'.ret, q, <<"competes_with">>)
                   ELSE q \notin NodeIds(knowledge_graph') \ {last'.ret} ]_vars

GapTypes == { <<"feature">>, <<"market">>, <<"experience">> }

(***************************************************************************)
(* C16: in every state reached by ingestion and add_relationship, the      *)
(* gap_type of every gap node is feature, market or experience.            *)
(***************************************************************************)
C16_GapTypeIsOneOfThree ==
    \A n \in NodesOfType(knowledge_graph, <<"gap">>) :
        Get(knowledge_graph.graph.attrs[n], "gap_type", EmptyStr) \in GapTypes

UnknownNodeError == <<"UnknownNodeError">>

(***************************************************************************)
(* C17: when add_gap(record, related) returns the gap, the gap node is     *)
(* connected by identified_in to every ID of related; when an ID of        *)
(* related names no node of the store, the call ends with an error for the *)
(* caller instead.                                                         *)
(***************************************************************************)
C17_GapIsLinkedToEveryRelatedProduct ==
    [][ ( /\ last'.op = "add_gap"
          /\ nops' = nops + 1 )
        => LET related == last'.related_products
           IN  /\ last'.ret # UnknownNodeError =>
                    \A i \in 1..Len(related) :
                        Linked(knowledge_graph', last'.ret, related[i], <<"identified_in">>)
               /\ (\E i \in 1..Len(related) : related[i] \notin NodeIds(knowledge_graph))
                    => last'.ret = UnknownNodeError ]_vars

\* The key of a gap record: the slug of its name or, without a name, of
\* the first characters of its description.
GapKey(record) ==
    LET name == Get(record, "name", EmptyStr)
        description == Get(record, "description", EmptyStr)
    IN  IF name # EmptyStr
        THEN SlugOf(name)
        ELSE SlugOf(SubSeq(description, 1,
                           IF Len(description) < GapNameLen THEN Len(description)
                                                            ELSE GapNameLen))

GapTypeOf(record) == Get(record, "type", <<"feature">>)

(***************************************************************************)
(* C18: the node add_gap creates and returns is the gap node of the        *)
(* record's type and key, the key being the slug of the name or, when the  *)
(* name is absent or empty, the slug of the first 30 characters of the     *)
(* description; two records resolve to the same node exactly when they     *)
(* have the same type and the same key.                                    *)
(***************************************************************************)
C18_GapIsKeyedByTypeAndKey ==
    [][ ( /\ last'.op = "add_gap"
          /\ nops' = nops + 1 )
        => LET record == last'.gap_data
           IN  /\ last'.ret \in NodesOfType(knowledge_graph', <<"gap">>)
               /\ last'.ret = <<"gap:">> \o GapTypeOf(record) \o <<":">> \o GapKey(record)
               /\ \A c \in GapCalls :
                    (gap_id_of(c.gap_data) = last'.ret)
                      <=> ( /\ GapTypeOf(c.gap_data) = GapTypeOf(record)
                            /\ GapKey(c.gap_data) = GapKey(record) ) ]_vars

\* The pairs of nodes joined by a suggests edge.
Suggested(self) ==
    {e \in DOMAIN self.graph.eattrs :
        Get(self.graph.eattrs[e], "relationship", EmptyStr) = <<"suggests">>}

(***************************************************************************)
(* C19: add_gap of a feature gap leaves a Feature node for the gap's name  *)
(* in the store, joined to the gap by a suggests edge; add_gap of a gap of *)
(* another type adds no Feature node and no suggests edge; either way a    *)
(* Feature node that was there stays a Feature node with the products it   *)
(* had.                                                                    *)
(***************************************************************************)
C19_FeatureGapSuggestsItsFeature ==
    [][ ( /\ last'.op = "add_gap"
          /\ nops' = nops + 1 )
        => LET gap == last'.ret
               f == <<"feature:">> \o SlugOf(NameOf(knowledge_graph', gap))
           IN  /\ GapTypeOf(last'.gap_data) = <<"feature">> =>
                    /\ f \in Features(knowledge_graph')
                    /\ f \in knowledge_graph'.feature_nodes
                    /\ Linked(knowledge_graph', gap, f, <<"suggests">>)
               /\ GapTypeOf(last'.gap_data) # <<"feature">> =>
                    /\ Features(knowledge_graph') = Features(knowledge_graph)
                    /\ knowledge_graph'.feature_nodes = knowledge_graph.feature_nodes
                    /\ Suggested(knowledge_graph') = Suggested(knowledge_graph)
               /\ \A x \in Features(knowledge_graph) :
                    /\ x \in Features(knowledge_graph')
                    /\ Owners(knowledge_graph, x) \subseteq Owners(knowledge_graph', x) ]_vars

\* The feature gap 'D m' added to a store where product A owns 'D m', and
\* a market gap before it.
C19_Witness ==
    /\ last.op = "add_gap"
    /\ last.gap_data.type = <<"feature">>
    /\ last.gap_data.name = FY
    /\ Owners(knowledge_graph, feature_id_of(FY)) = {PA}
    /\ Linked(knowledge_graph, last.ret, feature_id_of(FY), <<"suggests">>)
    /\ Linked(knowledge_graph, last.ret, PA, <<"identified_in">>)
    /\ \E n \in NodesOfType(knowledge_graph, <<"gap">>) :
         /\ knowledge_graph.graph.attrs[n].gap_type = <<"market">>
         /\ \A x \in NodeIds(knowledge_graph) :
              Connected(knowledge_graph, n, x) => ~ Linked(knowledge_graph, n, x, <<"suggests">>)

(***************************************************************************)
(* C20: no write leaves two edges between one pair of nodes, and           *)
(* add_relationship between two nodes already joined by an edge of the     *)
(* same relationship leaves the number of edges as it was and the edge     *)
(* with that relationship and every property value the call supplied.      *)
(***************************************************************************)
C20_ReAddingAnEdgeUpdatesIt ==
    [][ /\ \A e \in Range(knowledge_graph'.graph.edges) :
             Occurrences(knowledge_graph'.graph.edges, e) = 1
        /\ ( /\ last'.op = "add_relationship"
              /\ nops' = nops + 1
              /\ Connected(knowledge_graph, last'.source_id, last'.target_id)
              /\ RelationshipOf(knowledge_graph, last'.source_id, last'.target_id)
                   = last'.relationship_type )
            => LET e == {last'.source_id, last'.target_id}
               IN  /\ last'.ret = True
                   /\ Len(knowledge_graph'.graph.edges) = Len(knowledge_graph.graph.edges)
                   /\ DOMAIN knowledge_graph'.graph.eattrs = DOMAIN knowledge_graph.graph.eattrs
                   /\ RelationshipOf(knowledge_graph', last'.source_id, last'.target_id)
                        = last'.relationship_type
                   /\ \A k \in DOMAIN last'.properties :
                        /\ k \in DOMAIN knowledge_graph'.graph.eattrs[e]
                        /\ knowledge_graph'.graph.eattrs[e][k] = last'.properties[k] ]_vars

\* The has_feature edge of product A and feature x, made by ingestion,
\* re-added with weight 1 and then, from the other end, with weight 3.
C20_Witness ==
    /\ last.op = "add_relationship"
    /\ last.source_id = feature_id_of(FX)
    /\ last.target_id = PA
    /\ last.relationship_type = <<"has_feature">>
    /\ nops = 3
    /\ Len(knowledge_graph.graph.edges) = 4
    /\ knowledge_graph.graph.eattrs[{PA, feature_id_of(FX)}]
         = [relationship |-> <<"has_feature">>, weight |-> <<"3">>]

(***************************************************************************)
(* C21: no ingestion call and no add_relationship deletes anything: a node *)
(* of the store is a node of the same type after the call, and two nodes   *)
(* that were connected are connected after it.                             *)
(***************************************************************************)
C21_NothingIsDeleted ==
    [][ /\ \A n \in NodeIds(knowledge_graph) :
             /\ n \in NodeIds(knowledge_graph')
             /\ TypeOf(knowledge_graph', n) = TypeOf(knowledge_graph, n)
             /\ Occurrences(knowledge_graph'.graph.nodes, n) = 1
        /\ \A a, b \in NodeIds(knowledge_graph) :
             Connected(knowledge_graph, a, b) => Connected(knowledge_graph', a, b) ]_vars

\* Product A under category P, made by company Co, then ingested again
\* under category Q.
C21_Witness ==
    /\ last.op = "add_product"
    /\ last.ret = PA
    /\ nops = 3
    /\ Linked(knowledge_graph, company_id_of([name |-> <<"C", "o">>]), PA, <<"makes">>)
    /\ Linked(knowledge_graph, PA, category_id_of(<<"P">>), <<"belongs_to">>)
    /\ Linked(knowledge_graph, PA, category_id_of(<<"Q">>), <<"belongs_to">>)

products_in_scope(self, category) ==
    IF category = None
    THEN Products(self)
    ELSE {p \in Products(self) :
            /\ category_id_of(category) \in NodesOfType(self, <<"category">>)
            /\ Connected(self, p, category_id_of(category))
            /\ RelationshipOf(self, p, category_id_of(category))
                 \in {<<"belongs_to">>, <<"contains">>}}

\* The number of products in scope that have the feature.
feature_count(self, feature, scope) ==
    Cardinality({p \in scope : Connected(self, p, feature)})

\* (name, count) is ranked before (other_name, other_count).
ranked_before(name, count, other_name, other_count) ==
    \/ count > other_count
    \/ count = other_count /\ StrLess(name, other_name)

\* The features of S, by descending count, then ascending name.
RECURSIVE ranking(_, _, _)
ranking(self, S, scope) ==
    IF S = {}
    THEN <<>>
    ELSE LET first == CHOOSE f \in S : \A g \in S \ {f} :
                         ~ ranked_before(NameOf(self, g), feature_count(self, g, scope),
                                         NameOf(self, f), feature_count(self, f, scope))
         IN  << <<NameOf(self, first), feature_count(self, first, scope)>> >>
             \o ranking(self, S \ {first}, scope)

\* A faulty variant of find_popular_features: the products are not
\* restricted to the category.
find_popular_features_unscoped(self, category, limit) ==
    LET scope == Products(self)
        counted == {f \in Features(self) : feature_count(self, f, scope) > 0}
        ranked == ranking(self, counted, scope)
    IN  SubSeq(ranked, 1, IF Len(ranked) < limit THEN Len(ranked) ELSE limit)

find_popular_features(self, category, limit) ==
    LET scope == products_in_scope(self, category)
        counted == {f \in Features(self) : feature_count(self, f, scope) > 0}
        ranked == ranking(self, counted, scope)
    IN  SubSeq(ranked, 1, IF Len(ranked) < limit THEN Len(ranked) ELSE limit)

\* The competitors recorded for a product: the products a competes_with
\* edge joins it to.
recorded_competitors(self, product_id) ==
    {q \in Products(self) \ {product_id} : Linked(self, product_id, q, <<"competes_with">>)}

\* A faulty variant of find_missing_features: a competitor with nothing
\* the product lacks is kept, with the empty set.
find_missing_features_keeping_empty(self, product_id, competitor_ids) ==
    LET competitors == IF competitor_ids = None
                       THEN recorded_competitors(self, product_id)
                       ELSE Range(competitor_ids)
    IN  [c \in competitors |-> FeatureSet(self, c) \ FeatureSet(self, product_id)]

find_missing_features(self, product_id, competitor_ids) ==
    LET competitors == IF competitor_ids = None
                       THEN recorded_competitors(self, product_id)
                       ELSE Range(competitor_ids)
        missing(c) == FeatureSet(self, c) \ FeatureSet(self, product_id)
    IN  [c \in {x \in competitors : missing(x) # {}} |-> missing(c)]

Categories == { None, <<"P">>, <<"Q">> }

Limits == { 1, 2 }

CompetitorLists == { None, <<PB>>, <<PB, PC>> }

FindPopularFeatures ==
    \E category \in Categories, limit \in Limits :
        /\ last.op \notin Queries
        /\ last' = [op |-> "find_popular_features", category |-> category, limit |-> limit,
                    result |-> find_popular_features(knowledge_graph, category, limit)]
        /\ UNCHANGED <<knowledge_graph, nops>>

FindMissingFeatures ==
    \E product_id \in {PA, PC}, competitor_ids \in CompetitorLists :
        /\ last.op \notin Queries
        /\ last' = [op |-> "find_missing_features", product_id |-> product_id,
                    competitor_ids |-> competitor_ids,
                    result |-> find_missing_features(knowledge_graph, product_id,
                                                     competitor_ids)]
        /\ UNCHANGED <<knowledge_graph, nops>>

NextAnalysis == Write \/ FindPopularFeatures \/ FindMissingFeatures

\* The store under ingestion and add_relationship, and the two queries on it.
SpecAnalysis == Init /\ [][NextAnalysis]_vars

\* The products of the store that are members of the category (all of them
\* when none is named).
InScope(self, category) ==
    IF category = None
    THEN Products(self)
    ELSE {p \in Products(self) :
            \E c \in NodesOfType(self, <<"category">>) :
                SlugOf(NameOf(self, c)) = SlugOf(category) /\ Connected(self, p, c)}

\* The number of products of scope that have the Feature node f.
CountIn(self, f, scope) == Cardinality(Owners(self, f) \cap scope)

(***************************************************************************)
(* C23: find_popular_features(category, limit) returns at most limit pairs *)
(* (feature name, count), count being the number of products in scope that *)
(* have the feature, in descending order of count and, at equal counts,    *)
(* ascending order of name; no feature left out is ranked before one that  *)
(* is returned, and none with a product in scope is left out while there   *)
(* is room.  For A = [x, D m, z] and B = [d m, z, w] in category P and     *)
(* limit 2 it returns the feature of slug d_m and z, each with count 2.    *)
(***************************************************************************)
C23_PopularFeatures ==
    last.op = "find_popular_features" =>
        LET res == last.result
            scope == InScope(knowledge_graph, last.category)
            counted == {f \in Features(knowledge_graph) :
                           CountIn(knowledge_graph, f, scope) > 0}
            entry(f) == <<NameOf(knowledge_graph, f), CountIn(knowledge_graph, f, scope)>>
        IN  /\ Len(res) <= last.limit
            /\ Len(res) = IF Cardinality(counted) < last.limit
                          THEN Cardinality(counted) ELSE last.limit
            /\ \A i \in 1..Len(res) : \E f \in counted : res[i] = entry(f)
            /\ \A i \in 1..(Len(res) - 1) :
                 \/ res[i][2] > res[i + 1][2]
                 \/ res[i][2] = res[i + 1][2] /\ StrLess(res[i][1], res[i + 1][1])
            /\ \A f \in counted :
                 (\A i \in 1..Len(res) : res[i] # entry(f))
                 => \A i \in 1..Len(res) :
                        \/ res[i][2] > entry(f)[2]
                        \/ res[i][2] = entry(f)[2] /\ StrLess(res[i][1], entry(f)[1])
            /\ (ScenarioAB /\ nops = 2 /\ last.category = <<"P">> /\ last.limit = 2)
                 => /\ Len(res) = 2
                    /\ res[1][1] \in {FY, FYlower}
                    /\ res[1][2] = 2
                    /\ res[2] = <<FZ, 2>>

\* Scenario C: A and B, both in category P, asked for the two most popular
\* features of P.
C23_Witness ==
    /\ last.op = "find_popular_features"
    /\ ScenarioAB
    /\ nops = 2
    /\ last.category = <<"P">>
    /\ last.limit = 2
    /\ InScope(knowledge_graph, <<"P">>) = {PA, PB}
    /\ last.result = << <<FYlower, 2>>, <<FZ, 2>> >>

(***************************************************************************)
(* C24: find_missing_features(product, competitors) returns a map whose    *)
(* keys are exactly the competitors (those listed or, when none is listed, *)
(* the products a competes_with edge joins to the product) that have a     *)
(* feature the product lacks, each mapped to exactly the features it has   *)
(* and the product lacks.                                                  *)
(***************************************************************************)
C24_MissingFeatures ==
    last.op = "find_missing_features" =>
        LET p == last.product_id
            competitors ==
                IF last.competitor_ids = None
                THEN {q \in Products(knowledge_graph) \ {p} :
                         Linked(knowledge_graph, p, q, <<"competes_with">>)}
                ELSE Range(last.competitor_ids)
            lacking(c) == {f \in Features(knowledge_graph) :
                              Connected(knowledge_graph, c, f)
                              /\ ~ Connected(knowledge_graph, p, f)}
        IN  /\ DOMAIN last.result = {c \in competitors : lacking(c) # {}}
            /\ \A c \in DOMAIN last.result : last.result[c] = lacking(c)

\* A asked, with no list, about its recorded competitor B, which has w and
\* A has not.
C24_Witness ==
    /\ last.op = "find_missing_features"
    /\ last.product_id = PA
    /\ ScenarioAB
    /\ last.competitor_ids = None
    /\ Linked(knowledge_graph, PA, PB, <<"competes_with">>)
    /\ DOMAIN last.result = {PB}
    /\ last.result[PB] = {feature_id_of(FW)}

(***************************************************************************)
(* C25: after add_product with a record that carries a categories list,    *)
(* every entry of the list has a Category node, of the entry's slug, that  *)
(* is connected to the product.                                            *)
(***************************************************************************)
C25_EveryListedCategoryHoldsTheProduct ==
    [][ ( /\ last'.op = "add_product"
          /\ nops' = nops + 1
          /\ "categories" \in DOMAIN last'.product_data )
        => \A i \in 1..Len(last'.product_data.categories) :
               \E c \in NodesOfType(knowledge_graph', <<"category">>) :
                   /\ SlugOf(NameOf(knowledge_graph', c))
                        = SlugOf(last'.product_data.categories[i])
                   /\ Connected(knowledge_graph', last'.ret, c) ]_vars

\* The fields of a product record and the node attributes they are kept in.
ProductFields ==
    { <<"description", "description">>, <<"url", "url">>,
      <<"pricing_model", "pricing">>, <<"target_audience", "audience">> }

(***************************************************************************)
(* C26: add_product under the name of a product of the store merges the    *)
(* attributes of the product node: description, url, pricing and audience  *)
(* each have the new record's value where the record supplies the field    *)
(* and the value they had where it does not.                               *)
(***************************************************************************)
C26_ReingestionMergesAttributes ==
    [][ ( /\ last'.op = "add_product"
          /\ nops' = nops + 1
          /\ last'.ret \in Products(knowledge_graph) )
        => \A fa \in ProductFields :
               LET before == Get(knowledge_graph.graph.attrs[last'.ret], fa[2], EmptyStr)
                   after == Get(knowledge_graph'.graph.attrs[last'.ret], fa[2], EmptyStr)
               IN  IF fa[1] \in DOMAIN last'.product_data
                   THEN after = last'.product_data[fa[1]]
                   ELSE after = before ]_vars

\* The relationships recorded between two nodes.
RelationshipsBetween(self, a, b) ==
    IF Connected(self, a, b) THEN {RelationshipOf(self, a, b)} ELSE {}

(***************************************************************************)
(* C27: add_relationship(a, b, r2) between two nodes an edge of another    *)
(* relationship r1 already joins leaves r1 recorded: afterwards r1 and r2  *)
(* are both recorded between a and b.                                      *)
(***************************************************************************)
C27_RelationshipsAreKeptSideBySide ==
    [][ ( /\ last'.op = "add_relationship"
          /\ nops' = nops + 1
          /\ Connected(knowledge_graph, last'.source_id, last'.target_id) )
        => ( RelationshipsBetween(knowledge_graph, last'.source_id, last'.target_id)
               \cup {last'.relationship_type} )
             \subseteq RelationshipsBetween(knowledge_graph', last'.source_id,
                                            last'.target_id) ]_vars

\* The pair (product, score) is an entry of a result of find_similar_products.
Lists(result, product, score) ==
    \E i \in 1..Len(result) : result[i] = <<product, score>>

(***************************************************************************)
(* C28: for two products P and Q and a threshold t, Q is listed with score *)
(* s by find_similar_products(P, t) exactly when P is listed with score s  *)
(* by find_similar_products(Q, t), and P is not listed by                  *)
(* find_similar_products(P, t).                                            *)
(***************************************************************************)
C28_SimilarityIsSymmetricAndIrreflexive ==
    (last.op = "find_similar_products" /\ last.product_id \in Products(knowledge_graph)) =>
        LET P == last.product_id
            t == last.similarity_threshold
        IN  /\ \A i \in 1..Len(last.result) : last.result[i][1] # P
            /\ \A Q \in Products(knowledge_graph) \ {P} :
                 \A order \in Orders(knowledge_graph.product_nodes) :
                     LET back == find_similar_products(knowledge_graph, Q, t, order)
                     IN  /\ \A i \in 1..Len(last.result) :
                              last.result[i][1] = Q => Lists(back, P, last.result[i][2])
                         /\ \A j \in 1..Len(back) :
                              back[j][1] = P => Lists(last.result, Q, back[j][2])

\* A asked at threshold 0 in a store where B shares two of four features
\* with it and C c has none.
C28_Witness ==
    /\ last.op = "find_similar_products"
    /\ last.product_id = PA
    /\ last.similarity_threshold = Zero
    /\ Products(knowledge_graph) = {PA, PB, PC}
    /\ FeatureSet(knowledge_graph, PA) = {feature_id_of(FX), feature_id_of(FY), feature_id_of(FZ)}
    /\ FeatureSet(knowledge_graph, PB) = {feature_id_of(FY), feature_id_of(FZ), feature_id_of(FW)}
    /\ FeatureSet(knowledge_graph, PC) = {}
    /\ Lists(last.result, PB, Quotient(1, 2))
    /\ Lists(last.result, PC, Zero)

(***************************************************************************)
(* C29: import_from_json leaves the document it is given as it was: every  *)
(* node entry still has its id and every edge entry its source and target, *)
(* so that importing the document once more returns and gives the same     *)
(* store.                                                                  *)
(***************************************************************************)
C29_ImportLeavesTheDocument ==
    last.op = "import_from_json" =>
        /\ last.after = last.json_graph
        /\ last.ret = None =>
             LET again == import_from_json(knowledge_graph, last.after)
             IN  /\ again.raised = None
                 /\ SameStore(again.self, knowledge_graph)

\* find_gaps_for_product(product_id) lists the gap.
ListsGap(self, product_id, gap) ==
    \E i \in 1..Len(find_gaps_for_product(self, product_id)) :
        find_gaps_for_product(self, product_id)[i] = gap

(***************************************************************************)
(* C30: in whichever order a product and a gap related to it, a company    *)
(* making it or a user need addressed by one of its features are ingested, *)
(* the store has the same nodes and edges afterwards, and                  *)
(* find_gaps_for_product of the product lists the gap.                     *)
(***************************************************************************)
C30_LinksDoNotDependOnIngestionOrder ==
    \A r \in ProductRecords :
        LET P == product_id_of(r)
            self == knowledge_graph
            product_first == add_product(self, r).self
        IN  /\ \A c \in GapCalls :
                 P \in Range(c.related_products) =>
                     LET gp == add_product(add_gap(self, c.gap_data, c.related_products).self,
                                           r).self
                         pg == add_gap(product_first, c.gap_data, c.related_products).self
                     IN  /\ SameStore(gp, pg)
                         /\ ListsGap(gp, P, gap_id_of(c.gap_data))
                         /\ ListsGap(pg, P, gap_id_of(c.gap_data))
            /\ \A c \in CompanyCalls :
                 P \in Range(c.company_products) =>
                     SameStore(add_product(add_company(self, c.company_data,
                                                       c.company_products).self, r).self,
                               add_company(product_first, c.company_data,
                                           c.company_products).self)
            /\ \A c \in UserNeedCalls :
                 (\E i \in 1..Len(Get(r, "feature_list", <<>>)) :
                      feature_id_of(r.feature_list[i]) \in Range(c.related_features)) =>
                     SameStore(add_product(add_user_need(self, c.need_data,
                                                         c.related_features).self, r).self,
                               add_user_need(product_first, c.need_data,
                                             c.related_features).self)

====
